---------------------------- MODULE Spec2Model ----------------------------
(***************************************************************************)
(* Model of scripts/graph_motion.py (Klipper): the trapezoid position      *)
(* generator, the belt-as-spring estimator, the list helpers and the data  *)
(* filters.                                                                *)
(*                                                                         *)
(* Python floats are modelled as exact rationals <<numerator, denominator>>*)
(* (normalised, denominator > 0), so every formula is evaluated as the     *)
(* code writes it but without rounding error.  Python lists are sequences; *)
(* Python's 0-based indexing, negative-index wrap-around, slice clamping   *)
(* and IndexError / ZeroDivisionError are modelled explicitly.             *)
(*                                                                         *)
(* The physical constants keep their names and their roles but are scaled  *)
(* (SEG_TIME = 1/2 instead of 1/10000, MARGIN_TIME = 1 instead of 0.05,    *)
(* ACCEL = 2, DAMPING = 1/2, SPRING_FREQ * 2 pi = 2) so that lists of a    *)
(* handful of samples reach every branch: with the source's values the     *)
(* margin alone is 500 samples.  The scaled margin is 2 samples (drop = 2, *)
(* time_to_index(2 * MARGIN_TIME) = 4).                                    *)
(***************************************************************************)
EXTENDS Integers, Sequences, FiniteSets, TLC

VARIABLES
    \* ---- gen_positions (lines 58-79) ----
    get_acc_pos,   \* the kernel bound to the global get_acc_pos (line 58)
    Moves,         \* the global move list (line 19)
    pc,            \* position inside gen_positions
    idx,           \* index (1-based) of the move the for loop is at
    out,           \* gen_positions' out list
    start_d, start_t, t,        \* its accumulators (line 63)
    move_t, accel, end_t,       \* locals of the for body (lines 65-72)
    \* ---- list helpers, filters and the spring estimator ----
    positions,     \* the list handed to a function
    smooth_time,   \* the smooth_time handed to a filter
    fn,            \* the function that was called last
    result,        \* what it returned or raised
    lists          \* the lists of a trim_lists call, as trim_lists left them

vars == <<get_acc_pos, Moves, pc, idx, out, start_d, start_t, t,
          move_t, accel, end_t, positions, smooth_time, fn, result, lists>>

genVars == <<get_acc_pos, Moves, pc, idx, out, start_d, start_t, t,
             move_t, accel, end_t>>

listVars == <<positions, smooth_time, fn, result, lists>>

-----------------------------------------------------------------------------
(* Bounds of the model *)

\* longest move list handed to gen_positions
MaxMoves == 2

\* longest list handed to a filter, the estimator or trim_lists
MaxLen == 6

-----------------------------------------------------------------------------
(* Exact rational arithmetic standing for Python's float arithmetic *)

Abs(x) == IF x < 0 THEN -x ELSE x

Min(a, b) == IF a < b THEN a ELSE b

Max(a, b) == IF a > b THEN a ELSE b

RECURSIVE Gcd(_, _)
Gcd(a, b) == IF b = 0 THEN a ELSE Gcd(b, a % b)

Rat(n, d) ==
    LET g == Gcd(Abs(n), Abs(d))
        s == IF d < 0 THEN -1 ELSE 1
    IN  <<(s * n) \div g, (s * d) \div g>>

Zero == <<0, 1>>
One  == <<1, 1>>
Half == <<1, 2>>

\* sums over the least common denominator and products after cancelling,
\* which keeps the intermediate integers small
RAdd(a, b) ==
    LET g == Gcd(a[2], b[2])
    IN  Rat(a[1] * (b[2] \div g) + b[1] * (a[2] \div g), (a[2] \div g) * b[2])
RNeg(a)    == <<-a[1], a[2]>>
RSub(a, b) == RAdd(a, RNeg(b))
RMul(a, b) ==
    LET g1 == Gcd(Abs(a[1]), b[2])
        g2 == Gcd(Abs(b[1]), a[2])
    IN  Rat((a[1] \div g1) * (b[1] \div g2), (a[2] \div g2) * (b[2] \div g1))
RDiv(a, b) == RMul(a, Rat(b[2], b[1]))
RLe(a, b)  == a[1] * b[2] <= b[1] * a[2]
RLt(a, b)  == a[1] * b[2] < b[1] * a[2]
RAbs(a)    == <<Abs(a[1]), a[2]>>

\* int(x): truncation toward zero
PyInt(a) == IF a[1] >= 0 THEN a[1] \div a[2] ELSE -((-a[1]) \div a[2])

\* the outcome of a call: a value, or the exception it raised
Ok(v)    == [exc |-> "", v |-> v]
Raise(e) == [exc |-> e, v |-> <<>>]

-----------------------------------------------------------------------------
(* Constants of the script (scaled, see the header) *)

SEG_TIME     == Rat(1, 2)
INV_SEG_TIME == RDiv(One, SEG_TIME)
ACCEL        == Rat(2, 1)

\* a move_t of None
None == <<>>

-----------------------------------------------------------------------------
(* Basic trapezoid motion *)

get_acc_pos_ao2(rel_t, start_v, acc, mv_t) ==
    Ok(RMul(RAdd(start_v, RMul(RMul(Half, acc), rel_t)), rel_t))

get_acc_pos_ao4(rel_t, start_v, acc, mv_t) ==
    IF mv_t = Zero THEN Raise("ZeroDivisionError")
    ELSE
    LET inv_accel_t == RDiv(One, mv_t)
        accel_div_accel_t == RMul(acc, inv_accel_t)
        accel_div_accel_t2 == RMul(accel_div_accel_t, inv_accel_t)
        c4 == RMul(Rat(-1, 2), accel_div_accel_t2)
        c3 == accel_div_accel_t
        c1 == start_v
    IN  Ok(RMul(RAdd(RMul(RMul(RAdd(RMul(c4, rel_t), c3), rel_t), rel_t), c1),
                rel_t))

get_acc_pos_ao6_c5_bug(rel_t, start_v, acc, mv_t) ==
    IF mv_t = Zero THEN Raise("ZeroDivisionError")
    ELSE
    LET inv_accel_t == RDiv(One, mv_t)
        accel_div_accel_t == RMul(acc, inv_accel_t)
        accel_div_accel_t2 == RMul(accel_div_accel_t, inv_accel_t)
        accel_div_accel_t3 == RMul(accel_div_accel_t2, inv_accel_t)
        accel_div_accel_t4 == RMul(accel_div_accel_t3, inv_accel_t)
        c6 == accel_div_accel_t4
        c5 == RMul(Rat(-2, 1), accel_div_accel_t3)
        c4 == RMul(Rat(5, 2), accel_div_accel_t2)
        c1 == start_v
        p  == RAdd(RMul(RAdd(RMul(c6, rel_t), c5), rel_t), c4)
    IN  Ok(RMul(RAdd(RMul(RMul(RMul(p, rel_t), rel_t), rel_t), c1), rel_t))

get_acc_pos_ao6(rel_t, start_v, acc, mv_t) ==
    IF mv_t = Zero THEN Raise("ZeroDivisionError")
    ELSE
    LET inv_accel_t == RDiv(One, mv_t)
        accel_div_accel_t == RMul(acc, inv_accel_t)
        accel_div_accel_t2 == RMul(accel_div_accel_t, inv_accel_t)
        accel_div_accel_t3 == RMul(accel_div_accel_t2, inv_accel_t)
        accel_div_accel_t4 == RMul(accel_div_accel_t3, inv_accel_t)
        c6 == accel_div_accel_t4
        c5 == RMul(Rat(-3, 1), accel_div_accel_t3)
        c4 == RMul(Rat(5, 2), accel_div_accel_t2)
        c1 == start_v
        p  == RAdd(RMul(RAdd(RMul(c6, rel_t), c5), rel_t), c4)
    IN  Ok(RMul(RAdd(RMul(RMul(RMul(p, rel_t), rel_t), rel_t), c1), rel_t))

\* a call through the global get_acc_pos
call_get_acc_pos(rel_t, start_v, acc, mv_t) ==
    CASE get_acc_pos = "ao2" -> get_acc_pos_ao2(rel_t, start_v, acc, mv_t)
      [] get_acc_pos = "ao4" -> get_acc_pos_ao4(rel_t, start_v, acc, mv_t)
      [] get_acc_pos = "ao6" -> get_acc_pos_ao6(rel_t, start_v, acc, mv_t)

\* lines 65-66: the duration of a move
MoveT(m) ==
    IF m[3] = None THEN RDiv(RAbs(RSub(m[2], m[1])), ACCEL) ELSE m[3]

\* lines 67-71: the signed acceleration of a move
MoveAccel(m) ==
    IF RLt(m[1], m[2]) THEN ACCEL
    ELSE IF RLt(m[2], m[1]) THEN RNeg(ACCEL)
    ELSE Zero

\* the moves the model draws move lists from
Velocities == {Zero, One}
Durations  == {None, Zero, Rat(1, 4), One}
MoveSet    == {<<sv, ev, mt>> : sv \in Velocities, ev \in Velocities,
                                mt \in Durations}
MoveLists  == UNION {[1..n -> MoveSet] : n \in 0..MaxMoves}

\* line 73 with the bound exclusive
WhileCond_exclusive(now, end) == RLt(now, end)

\* line 73: the condition of the while loop
WhileCond(now, end) == RLe(now, end)

\* lines 62-63
GenStart ==
    /\ pc = "start"
    /\ out' = <<>>
    /\ start_d' = Zero /\ start_t' = Zero /\ t' = Zero
    /\ idx' = 1
    /\ pc' = "for"
    /\ UNCHANGED <<get_acc_pos, Moves, move_t, accel, end_t>>
    /\ UNCHANGED listVars

\* lines 64-72: the for loop takes the next move
GenFor ==
    /\ pc = "for"
    /\ idx <= Len(Moves)
    /\ move_t' = MoveT(Moves[idx])
    /\ accel' = MoveAccel(Moves[idx])
    /\ end_t' = RAdd(start_t, MoveT(Moves[idx]))
    /\ pc' = "while"
    /\ UNCHANGED <<get_acc_pos, Moves, idx, out, start_d, start_t, t>>
    /\ UNCHANGED listVars

\* lines 73-76: one iteration of the while loop
GenEmit ==
    /\ pc = "while"
    /\ WhileCond(t, end_t)
    /\ LET rel_t == RSub(t, start_t)
           r == call_get_acc_pos(rel_t, Moves[idx][1], accel, move_t)
       IN  IF r.exc # ""
           THEN /\ pc' = "raised"
                /\ UNCHANGED <<out, t>>
           ELSE /\ out' = Append(out, RAdd(start_d, r.v))
                /\ t' = RAdd(t, SEG_TIME)
                /\ pc' = pc
    /\ UNCHANGED <<get_acc_pos, Moves, idx, start_d, start_t,
                   move_t, accel, end_t>>
    /\ UNCHANGED listVars

\* lines 77-78: the while loop is over, the accumulators advance
GenAdvance ==
    /\ pc = "while"
    /\ ~WhileCond(t, end_t)
    /\ LET r == call_get_acc_pos(move_t, Moves[idx][1], accel, move_t)
       IN  IF r.exc # ""
           THEN /\ pc' = "raised"
                /\ UNCHANGED <<start_d, start_t, idx>>
           ELSE /\ start_d' = RAdd(start_d, r.v)
                /\ start_t' = end_t
                /\ idx' = idx + 1
                /\ pc' = "for"
    /\ UNCHANGED <<get_acc_pos, Moves, out, t, move_t, accel, end_t>>
    /\ UNCHANGED listVars

\* line 79
GenReturn ==
    /\ pc = "for"
    /\ idx > Len(Moves)
    /\ pc' = "done"
    /\ UNCHANGED <<get_acc_pos, Moves, idx, out, start_d, start_t, t,
                   move_t, accel, end_t>>
    /\ UNCHANGED listVars

ListIdle ==
    /\ positions = <<>>
    /\ smooth_time = Zero
    /\ fn = "idle"
    /\ result = Ok(<<>>)
    /\ lists = <<>>

GenIdle ==
    /\ get_acc_pos = "ao2"
    /\ Moves = <<>>
    /\ pc = "idle"
    /\ idx = 0
    /\ out = <<>>
    /\ start_d = Zero /\ start_t = Zero /\ t = Zero
    /\ move_t = Zero /\ accel = Zero /\ end_t = Zero

\* gen_positions as the script runs it: get_acc_pos = get_acc_pos_ao2
InitGen ==
    /\ get_acc_pos = "ao2"
    /\ Moves \in MoveLists
    /\ pc = "start"
    /\ idx = 0
    /\ out = <<>>
    /\ start_d = Zero /\ start_t = Zero /\ t = Zero
    /\ move_t = Zero /\ accel = Zero /\ end_t = Zero
    /\ ListIdle

\* gen_positions with get_acc_pos bound to each of the three kernels
InitKernel ==
    /\ get_acc_pos \in {"ao2", "ao4", "ao6"}
    /\ Moves \in MoveLists
    /\ pc = "start"
    /\ idx = 0
    /\ out = <<>>
    /\ start_d = Zero /\ start_t = Zero /\ t = Zero
    /\ move_t = Zero /\ accel = Zero /\ end_t = Zero
    /\ ListIdle

NextGen == GenStart \/ GenFor \/ GenEmit \/ GenAdvance \/ GenReturn

SpecGen == InitGen /\ [][NextGen]_vars

SpecKernel == InitKernel /\ [][NextGen]_vars

-----------------------------------------------------------------------------
(* Python lists *)

\* l[i]: 0-based, a negative index counts from the end
PyGet(l, i) ==
    IF i < -Len(l) \/ i >= Len(l) THEN Raise("IndexError")
    ELSE Ok(l[(IF i < 0 THEN i + Len(l) ELSE i) + 1])

\* a slice bound, clamped the way Python clamps it
PyBound(l, i) == IF i < 0 THEN Max(i + Len(l), 0) ELSE Min(i, Len(l))

\* l[a:b]
PySlice(l, a, b) == SubSeq(l, PyBound(l, a) + 1, PyBound(l, b))

\* range(a, b), as the set of its values
PyRange(a, b) == a..(b - 1)

\* sum(l)
RECURSIVE PySum(_)
PySum(l) == IF l = <<>> THEN Zero ELSE RAdd(Head(l), PySum(Tail(l)))

\* an integer used in float arithmetic
Float(i) == <<i, 1>>

-----------------------------------------------------------------------------
(* Estimated motion with belt as spring *)

\* (SPRING_FREQ * 2. * math.pi)**2, scaled so that SPRING_FREQ * 2 pi = 2
ang_freq2 == RMul(Rat(2, 1), Rat(2, 1))
DAMPING   == Rat(1, 2)

\* lines 94-98 with the velocity integrated before the position
SpringStep_velocity_first(stepper_pos, head_pos, head_v) ==
    LET head_a == RMul(RSub(stepper_pos, head_pos), ang_freq2)
        v1 == RAdd(head_v, RMul(head_a, SEG_TIME))
        v2 == RSub(v1, RMul(RMul(v1, DAMPING), SEG_TIME))
        pos1 == RAdd(head_pos, RMul(v2, SEG_TIME))
    IN  [head_pos |-> pos1, head_v |-> v2, appended |-> pos1]

\* lines 94-98: one iteration of estimate_spring's loop
SpringStep(stepper_pos, head_pos, head_v) ==
    LET pos1 == RAdd(head_pos, RMul(head_v, SEG_TIME))
        head_a == RMul(RSub(stepper_pos, pos1), ang_freq2)
        v1 == RAdd(head_v, RMul(head_a, SEG_TIME))
        v2 == RSub(v1, RMul(RMul(v1, DAMPING), SEG_TIME))
    IN  [head_pos |-> pos1, head_v |-> v2, appended |-> pos1]

RECURSIVE SpringLoop(_, _, _, _)
SpringLoop(ps, head_pos, head_v, acc) ==
    IF ps = <<>> THEN acc
    ELSE LET s == SpringStep(Head(ps), head_pos, head_v)
         IN  SpringLoop(Tail(ps), s.head_pos, s.head_v,
                        Append(acc, s.appended))

estimate_spring(ps) == SpringLoop(ps, Zero, Zero, <<>>)

-----------------------------------------------------------------------------
(* List helper functions *)

MARGIN_TIME == Rat(1, 1)

time_to_index(tm) == PyInt(RAdd(RMul(tm, INV_SEG_TIME), Half))

\* indexes() without the margin at the end of the list
indexes_no_end_margin(ps) ==
    LET drop == time_to_index(MARGIN_TIME)
    IN  PyRange(drop, Len(ps))

indexes(ps) ==
    LET drop == time_to_index(MARGIN_TIME)
    IN  PyRange(drop, Len(ps) - drop)

\* trim_lists() with the margin counted once
trim_lists_one_margin(ls) ==
    LET keep == Len(ls[1]) - time_to_index(MARGIN_TIME)
    IN  [k \in 1..Len(ls) |-> PySlice(ls[k], 0, keep)]

\* del l[keep:] leaves l[:keep]
trim_lists(ls) ==
    LET keep == Len(ls[1]) - time_to_index(RMul(Rat(2, 1), MARGIN_TIME))
    IN  [k \in 1..Len(ls) |-> PySlice(ls[k], 0, keep)]

-----------------------------------------------------------------------------
(* Common data filters *)

\* lines 126-128
gen_deriv(data) ==
    <<Zero>> \o [i \in 1..(Len(data) - 1) |->
                    RMul(RSub(data[i + 1], data[i]), INV_SEG_TIME)]

\* out = [0.] * len(positions); for i in indexes(positions): out[i] = elem[i]
\* (elem[i]: the outcome of evaluating the right-hand side at i)
FilterLoop(ps, elem) ==
    IF \E i \in indexes(ps) : elem[i].exc # ""
    THEN Raise("IndexError")
    ELSE Ok([n \in 1..Len(ps) |->
                IF (n - 1) \in indexes(ps) THEN elem[n - 1].v ELSE Zero])

calc_average(ps, st) ==
    LET offset == time_to_index(RMul(st, Half))
    IN  FilterLoop(ps,
            [i \in indexes(ps) |->
                LET a == PyGet(ps, i - offset)
                    b == PyGet(ps, i + offset)
                IN  IF a.exc # "" THEN a
                    ELSE IF b.exc # "" THEN b
                    ELSE Ok(RMul(Half, RAdd(a.v, b.v)))])

\* lines 141, 150, 161: the weights (offset >= 1)
weight_smooth(offset)    == RDiv(Half, Float(offset))
weight_weighted(offset)  == RDiv(One, Float(offset * offset))
weight_weighted2(offset) ==
    RDiv(One, Float(offset * offset * offset * offset))

calc_smooth(ps, st) ==
    LET offset == time_to_index(RMul(st, Half))
    IN  IF offset = 0 THEN Raise("ZeroDivisionError")
        ELSE FilterLoop(ps,
                [i \in indexes(ps) |->
                    Ok(RMul(PySum(PySlice(ps, i - offset, i + offset)),
                            weight_smooth(offset)))])

\* line 153: the coefficient of positions[j], dist = abs(j-i)
coef_weighted(offset, dist) == Float(offset - dist)

\* lines 164-165 with the second factor abs(j-i) + offset
coef_weighted2_bug(offset, dist) ==
    RMul(Float((offset - dist) * (offset - dist)), Float(dist + offset))

\* lines 164-165: the coefficient of positions[j], dist = abs(j-i)
coef_weighted2(offset, dist) ==
    RMul(Float((offset - dist) * (offset - dist)),
         RAdd(RMul(Rat(2, 1), Float(dist)), Float(offset)))

\* lines 152-155 and 163-167: weighted_data summed and scaled, coef[dist]
\* being the coefficient at distance dist
WeightedLoop(ps, offset, weight, coef) ==
    FilterLoop(ps,
        [i \in indexes(ps) |->
            IF \E j \in PyRange(i - offset, i + offset) :
                   PyGet(ps, j).exc # ""
            THEN Raise("IndexError")
            ELSE LET weighted_data ==
                         [k \in 1..(2 * offset) |->
                             LET j == i - offset + k - 1
                             IN  RMul(PyGet(ps, j).v, coef[Abs(j - i)])]
                 IN  Ok(RMul(PySum(weighted_data), weight))])

calc_weighted(ps, st) ==
    LET offset == time_to_index(RMul(st, Half))
    IN  IF offset = 0 THEN Raise("ZeroDivisionError")
        ELSE WeightedLoop(ps, offset, weight_weighted(offset),
                          [d \in 0..offset |-> coef_weighted(offset, d)])

calc_weighted2(ps, st) ==
    LET offset == time_to_index(RMul(st, Half))
    IN  IF offset = 0 THEN Raise("ZeroDivisionError")
        ELSE WeightedLoop(ps, offset, weight_weighted2(offset),
                          [d \in 0..offset |-> coef_weighted2(offset, d)])

-----------------------------------------------------------------------------
(* Spring motion estimation *)

\* the "ideal values" of lines 201-202, in force when the filters run
SPRING_ADVANCE     == RDiv(One, ang_freq2)
RESISTANCE_ADVANCE == RMul(DAMPING, SPRING_ADVANCE)

calc_spring_raw(ps) ==
    LET sa == RMul(RMul(SPRING_ADVANCE, INV_SEG_TIME), INV_SEG_TIME)
        ra == RMul(RESISTANCE_ADVANCE, INV_SEG_TIME)
    IN  FilterLoop(ps,
            [i \in indexes(ps) |->
                LET a == PyGet(ps, i - 1)
                    b == PyGet(ps, i)
                    c == PyGet(ps, i + 1)
                IN  IF a.exc # "" THEN a
                    ELSE IF b.exc # "" THEN b
                    ELSE IF c.exc # "" THEN c
                    ELSE Ok(RAdd(RAdd(b.v,
                              RMul(sa, RAdd(RSub(a.v, RMul(Rat(2, 1), b.v)),
                                            c.v))),
                              RMul(ra, RSub(c.v, b.v))))])

-----------------------------------------------------------------------------
(* Plotting: the lists plot_motion builds from positions and trims *)

\* line 227: [n-o for n, o in zip(a, b)]
ZipDiff(a, b) == [i \in 1..Min(Len(a), Len(b)) |-> RSub(a[i], b[i])]

\* lines 218-234: times, velocities, accels, spring_diff_orig
PlotLists(ps) ==
    <<[i \in 1..Len(ps) |-> RMul(SEG_TIME, Float(i - 1))],
      gen_deriv(ps),
      gen_deriv(gen_deriv(ps)),
      ZipDiff(estimate_spring(ps), ps)>>

-----------------------------------------------------------------------------
(* Calls of the list functions *)

Samples       == {Zero, One, Rat(3, 1)}
PositionLists == UNION {[1..n -> Samples] : n \in 0..MaxLen}
SmoothTimes   == {Zero, Rat(1, 4), One, Rat(2, 1), Rat(3, 1)}

\* one call per run: the functions are pure, a second call adds nothing
Call(name, st, r, ls) ==
    /\ fn = "start"
    /\ fn' = name
    /\ smooth_time' = st
    /\ result' = r
    /\ lists' = ls
    /\ UNCHANGED positions
    /\ UNCHANGED genVars

Call_gen_deriv == Call("gen_deriv", Zero, Ok(gen_deriv(positions)), <<>>)

Call_estimate_spring ==
    Call("estimate_spring", Zero, Ok(estimate_spring(positions)), <<>>)

Call_calc_average ==
    \E st \in SmoothTimes :
        Call("calc_average", st, calc_average(positions, st), <<>>)

Call_calc_smooth ==
    \E st \in SmoothTimes :
        Call("calc_smooth", st, calc_smooth(positions, st), <<>>)

Call_calc_weighted ==
    \E st \in SmoothTimes :
        Call("calc_weighted", st, calc_weighted(positions, st), <<>>)

Call_calc_weighted2 ==
    \E st \in SmoothTimes :
        Call("calc_weighted2", st, calc_weighted2(positions, st), <<>>)

Call_calc_spring_raw ==
    Call("calc_spring_raw", Zero, calc_spring_raw(positions), <<>>)

\* lines 234-239
Call_trim_lists ==
    Call("trim_lists", Zero, Ok(<<>>), trim_lists(PlotLists(positions)))

Init ==
    /\ positions \in PositionLists
    /\ smooth_time = Zero
    /\ fn = "start"
    /\ result = Ok(<<>>)
    /\ lists = <<>>
    /\ GenIdle

Next ==
    \/ Call_gen_deriv
    \/ Call_estimate_spring
    \/ Call_calc_average
    \/ Call_calc_smooth
    \/ Call_calc_weighted
    \/ Call_calc_weighted2
    \/ Call_calc_spring_raw
    \/ Call_trim_lists

Spec == Init /\ [][Next]_vars

-----------------------------------------------------------------------------
(* Claims about the list helpers, the filters and the estimator *)

N      == Len(positions)
Offset == time_to_index(RMul(smooth_time, Half))
Drop   == time_to_index(MARGIN_TIME)

SmoothingFilters ==
    {"calc_average", "calc_smooth", "calc_weighted", "calc_weighted2"}

\* the filters' formulas at index i (0-based) of a list ps whose window
\* around i lies inside the list, written with plain indexing
WindowSum(ps, offset, i, coef) ==
    PySum([k \in 1..(2 * offset) |->
              RMul(ps[i - offset + k], coef[Abs(k - 1 - offset)])])

\* the coefficients at distances 0..offset of each weighted kernel
UnitCoefs(offset)      == [d \in 0..offset |-> One]
WeightedCoefs(offset)  == [d \in 0..offset |-> coef_weighted(offset, d)]
Weighted2Coefs(offset) == [d \in 0..offset |-> coef_weighted2(offset, d)]

KernelValue(name, ps, offset, i) ==
    CASE name = "calc_average" ->
            RMul(Half, RAdd(ps[i - offset + 1], ps[i + offset + 1]))
      [] name = "calc_smooth" ->
            RMul(WindowSum(ps, offset, i, UnitCoefs(offset)),
                 Rat(1, 2 * offset))
      [] name = "calc_weighted" ->
            RMul(WindowSum(ps, offset, i, WeightedCoefs(offset)),
                 Rat(1, offset * offset))
      [] name = "calc_weighted2" ->
            RMul(WindowSum(ps, offset, i, Weighted2Coefs(offset)),
                 Rat(1, offset * offset * offset * offset))

SpringRawValue(ps, i) ==
    LET sa == RMul(SPRING_ADVANCE, RMul(INV_SEG_TIME, INV_SEG_TIME))
        ra == RMul(RESISTANCE_ADVANCE, INV_SEG_TIME)
    IN  RAdd(ps[i + 1],
             RAdd(RMul(sa, RAdd(RSub(ps[i], RMul(Rat(2, 1), ps[i + 1])),
                                ps[i + 2])),
                  RMul(ra, RSub(ps[i + 2], ps[i + 1]))))

EqualLength(ls) == \A k \in 1..Len(ls) : Len(ls[k]) = Len(ls[1])

C2_WrittenRangeIsOffset ==
    /\ (fn \in SmoothingFilters /\ Offset >= 1) =>
          /\ result.exc = ""
          /\ Len(result.v) = N
          /\ \A i \in 0..(N - 1) :
                result.v[i + 1] =
                    IF Offset <= i /\ i < N - Offset
                    THEN KernelValue(fn, positions, Offset, i)
                    ELSE Zero
    /\ fn = "calc_spring_raw" =>
          /\ result.exc = ""
          /\ Len(result.v) = N
          /\ \A i \in 0..(N - 1) :
                result.v[i + 1] =
                    IF 1 <= i /\ i < N - 1
                    THEN SpringRawValue(positions, i)
                    ELSE Zero

\* C2 (amended): with drop = time_to_index(MARGIN_TIME), each smoothing
\* filter (offset >= 1) and calc_spring_raw leaves 0 at every index
\* outside [drop, N-drop) whenever it returns; when offset <= drop (for
\* calc_spring_raw: 1 <= drop) it does return and holds its kernel formula
\* at every index of [drop, N-drop).
C2_WrittenRangeIsMargin ==
    /\ (fn \in SmoothingFilters /\ Offset >= 1) =>
          /\ Offset <= Drop => result.exc = ""
          /\ result.exc = "" =>
                /\ Len(result.v) = N
                /\ \A i \in 0..(N - 1) :
                      ~(Drop <= i /\ i < N - Drop) => result.v[i + 1] = Zero
          /\ Offset <= Drop =>
                \A i \in Drop..(N - Drop - 1) :
                    result.v[i + 1] = KernelValue(fn, positions, Offset, i)
    /\ fn = "calc_spring_raw" =>
          /\ 1 <= Drop => result.exc = ""
          /\ result.exc = "" =>
                /\ Len(result.v) = N
                /\ \A i \in 0..(N - 1) :
                      ~(Drop <= i /\ i < N - Drop) => result.v[i + 1] = Zero
          /\ 1 <= Drop =>
                \A i \in Drop..(N - Drop - 1) :
                    result.v[i + 1] = SpringRawValue(positions, i)

\* C2 witness: calc_weighted2 with offset 1 on six samples wrote indices 2
\* and 3 and left index 1 at 0 although its window there is not all 0.
C2_Witness ==
    /\ fn = "calc_weighted2"
    /\ Offset = 1
    /\ N = 6
    /\ result.exc = ""
    /\ positions[2] # Zero
    /\ result.v[2] = Zero
    /\ result.v[3] # Zero
    /\ result.v[4] # Zero

\* C4 (as claimed): whatever the length N >= 0 of its input, gen_deriv,
\* estimate_spring and each filter returns a list of exactly N samples.
C4_LengthPreserved ==
    (/\ fn \in SmoothingFilters
               \cup {"gen_deriv", "estimate_spring", "calc_spring_raw"}
     /\ result.exc = "")
    => Len(result.v) = N

\* sum of a kernel's coefficients over j in [i-offset, i+offset)
CoefSum(offset, coef) ==
    PySum([k \in 1..(2 * offset) |-> coef[Abs(k - 1 - offset)]])

IsConstant(ps) == \A i \in 1..Len(ps) : ps[i] = ps[1]

C8_ZeroOffsetRejected ==
    (fn \in SmoothingFilters /\ Offset = 0) => result.exc # ""

\* C10: estimate_spring records the position it updated from the old
\* velocity before it looks at the commanded sample: out[0] = 0, out[1] is
\* the velocity that commanded[0] alone produced (accelerated, then damped)
\* times SEG_TIME, and out[0..i] does not change when commanded[i] and the
\* samples after it change.
C10_SpringOutputLagsInput ==
    fn = "estimate_spring" =>
        /\ Len(result.v) = N
        /\ N >= 1 => result.v[1] = Zero
        /\ N >= 2 =>
              result.v[2] =
                  RMul(RMul(RMul(RMul(positions[1], ang_freq2), SEG_TIME),
                            RSub(One, RMul(DAMPING, SEG_TIME))),
                       SEG_TIME)
        /\ \A i \in 0..(N - 1) : \A x \in Samples :
              SubSeq(estimate_spring(Append(SubSeq(positions, 1, i), x)),
                     1, i + 1)
                  = SubSeq(result.v, 1, i + 1)

\* C10 witness: a run over at least three samples whose first commanded
\* sample is not 0 and has moved the head by the second output.
C10_Witness ==
    /\ fn = "estimate_spring"
    /\ N >= 3
    /\ positions[1] # Zero
    /\ positions[2] # positions[3]
    /\ result.v[1] = Zero
    /\ result.v[2] # Zero
    /\ result.v[3] # result.v[2]

-----------------------------------------------------------------------------
(* Claims about gen_positions and the position kernels *)

\* the constant-acceleration closed form v0*T + 0.5*a*T^2
ClosedForm(v0, a, T) == RAdd(RMul(v0, T), RMul(RMul(Half, a), RMul(T, T)))

\* C3 (as claimed): while gen_positions processes a segment of duration 0
\* it appends no sample, leaves start_d and start_t unchanged and raises
\* no error, whichever kernel get_acc_pos is bound to and wherever the
\* segment stands in the move list.
C3_ZeroDurationSegmentIsSkipped ==
    [][(pc = "while" /\ move_t = Zero)
          => /\ out' = out
             /\ start_d' = start_d
             /\ start_t' = start_t
             /\ pc' # "raised"]_vars

\* C5: each of the three kernels gives 0 at rel_t = 0 and the
\* constant-acceleration displacement v0*T + 0.5*a*T^2 at rel_t = T, for
\* the start velocity, acceleration and duration T > 0 of every segment
\* gen_positions processes; so the displacement gen_positions accumulates
\* for its first segment is that closed form for whichever kernel is bound.
C5_KernelEndpoints ==
    /\ (pc = "while" /\ move_t # Zero) =>
          LET v0 == Moves[idx][1]
              cf == Ok(ClosedForm(v0, accel, move_t))
          IN  /\ get_acc_pos_ao2(Zero, v0, accel, move_t) = Ok(Zero)
              /\ get_acc_pos_ao4(Zero, v0, accel, move_t) = Ok(Zero)
              /\ get_acc_pos_ao6(Zero, v0, accel, move_t) = Ok(Zero)
              /\ get_acc_pos_ao2(move_t, v0, accel, move_t) = cf
              /\ get_acc_pos_ao4(move_t, v0, accel, move_t) = cf
              /\ get_acc_pos_ao6(move_t, v0, accel, move_t) = cf
    /\ (pc = "for" /\ idx = 2) =>
          start_d = ClosedForm(Moves[1][1], MoveAccel(Moves[1]),
                               MoveT(Moves[1]))

\* C5 witness: the order-6 kernel has supplied the displacement of an
\* accelerating first segment with a non-zero start velocity.
C5_Witness ==
    /\ get_acc_pos = "ao6"
    /\ pc = "for" /\ idx = 2
    /\ Moves[1][1] # Zero
    /\ MoveAccel(Moves[1]) # Zero
    /\ MoveT(Moves[1]) # Zero
    /\ start_d # Zero

\* time at which move k ends: the exact sum of the durations of moves 1..k
RECURSIVE SegEndT(_)
SegEndT(k) == IF k = 0 THEN Zero ELSE RAdd(SegEndT(k - 1), MoveT(Moves[k]))

\* distance at which move k starts: the full displacements of moves 1..k-1
RECURSIVE SegStartD(_)
SegStartD(k) ==
    IF k = 1 THEN Zero
    ELSE RAdd(SegStartD(k - 1),
              ClosedForm(Moves[k - 1][1], MoveAccel(Moves[k - 1]),
                         MoveT(Moves[k - 1])))

\* the earliest move whose time span [start, end] holds time tau
Emitter(tau) ==
    CHOOSE k \in 1..Len(Moves) :
        /\ RLe(tau, SegEndT(k))
        /\ \A j \in 1..(k - 1) : RLt(SegEndT(j), tau)

\* the position at time tau, from the move that holds it
PositionAt(tau) ==
    LET k == Emitter(tau)
        rel == RSub(tau, SegEndT(k - 1))
    IN  RAdd(SegStartD(k),
             RMul(RAdd(Moves[k][1], RMul(RMul(Half, MoveAccel(Moves[k])), rel)),
                  rel))

\* number of multiples of SEG_TIME in [0, total duration]
SampleCount == PyInt(RMul(SegEndT(Len(Moves)), INV_SEG_TIME)) + 1

\* C9 (as claimed): for every move list gen_positions returns exactly one
\* sample for each multiple of SEG_TIME in [0, total duration].
C9_OneSamplePerMultiple ==
    pc = "done" => Len(out) = SampleCount

\* C9 (amended): for every non-empty move list gen_positions returns one
\* sample for each multiple of SEG_TIME in [0, total duration] and none for
\* the empty move list; out[i] is the position at time i*SEG_TIME computed
\* from the accumulators of the earliest segment whose span holds that
\* time (a boundary sample is emitted by the earlier segment, once), and
\* start_t is the exact sum of the durations of the segments done so far.
C9_SamplesOnTheGrid ==
    /\ pc \in {"for", "while", "done"} =>
          /\ t = RMul(<<Len(out), 1>>, SEG_TIME)
          /\ \A i \in 1..Len(out) :
                out[i] = PositionAt(RMul(<<i - 1, 1>>, SEG_TIME))
          /\ start_t = SegEndT(idx - 1)
          /\ start_d = SegStartD(idx)
    /\ pc = "while" =>
          /\ end_t = SegEndT(idx)
          /\ WhileCond(t, end_t) => idx = Emitter(t)
    /\ pc = "done" =>
          Len(out) = IF Moves = <<>> THEN 0 ELSE SampleCount

\* C9 witness: a finished run of two segments whose boundary falls on a
\* sample time and whose end does not.
C9_Witness ==
    /\ pc = "done"
    /\ Len(Moves) = 2
    /\ SegEndT(1) = One
    /\ MoveT(Moves[2]) = Rat(1, 4)
    /\ MoveAccel(Moves[1]) # Zero
    /\ Len(out) = 3
    /\ start_t = Rat(5, 4)

=============================================================================
